---- MODULE Spec2Model ----
(***************************************************************************)
(* TUCL bot (src/main.py): the session registry and login flow, the        *)
(* command handlers as coroutines that interleave at their await points,   *)
(* and the settings store.                                                 *)
(*                                                                         *)
(* A handler invocation is a task.  One action of the model is one run of  *)
(* a task from an await point (or from its start) to its next await point  *)
(* (or its end): the event loop never runs two handler bodies in parallel. *)
(* The outcome of a library call is chosen when the task resumes.          *)
(***************************************************************************)
EXTENDS Integers, Sequences, FiniteSets, TLC

\* ------------------------------------------------------------------ bounds
MaxClients == 2     \* user TelegramClient objects constructed in one run

\* ------------------------------------------------------------------ inputs
Users == {1, 12}                \* sender ids; the text of 1 is a prefix of the text of 12
Phones == {"+39", "+44"}        \* group(3) of the /login pattern
ApiIds == {0, 7}                \* group(1) of the /login pattern, as an int
TaskIds == {1, 2}               \* handler invocations in flight at once

NoClient == 0
NoAttempt == [client |-> NoClient, phone |-> "", phone_code_hash |-> <<>>]

\* ------------------------------------------------------------------ file names
Digits == <<"0", "1", "2", "3", "4", "5", "6", "7", "8", "9">>

RECURSIVE Str(_)
\* str(n) of a non-negative int, one token per character
Str(n) == IF n < 10 THEN <<Digits[n + 1]>> ELSE Str(n \div 10) \o <<Digits[(n % 10) + 1]>>

\* filename.startswith(prefix)
StartsWith(name, prefix) ==
    /\ Len(prefix) <= Len(name)
    /\ SubSeq(name, 1, Len(prefix)) = prefix

\* f'tucl_user_session_{user_id}'
UserPrefix(u) == <<"tucl_user_session", "_">> \o Str(u)

\* 'tucl_user_session'
AnyUserPrefix == <<"tucl_user_session">>

\* f'{self.session_dir}/tucl_user_session_{user_id}_{int(time.time())}'
SessionPath(u, ts) == UserPrefix(u) \o <<"_">> \o Str(ts)

\* the file a TelegramClient keeps its session in: <session_path>.session
SessionFile(path) == path \o <<".session">>

\* f'{self.session_dir}/bot_session', the bot's own session
BotSessionFile == SessionFile(<<"bot_session">>)

\* ------------------------------------------------------------------ state
VARIABLES
    user_sessions,      \* self.user_sessions: user id -> client (NoClient: no key)
    sess_order,         \* the keys of self.user_sessions in insertion order
    login_attempts,     \* self.login_attempts: user id -> attempt (NoAttempt: no key)
    clients,            \* the user TelegramClient objects, in order of construction
    files,              \* os.listdir(self.session_dir)
    tasks,              \* the handler invocations in flight
    last,               \* the handler that ended in the last step, and how
    limited_mode,       \* self.limited_mode
    allowed_chats,      \* self.allowed_chats
    settings_file,      \* the content of tucl_settings.json
    proc,               \* the bot process: "init" (in __init__), "running", "crashed"
    stask,              \* the /allow_chat handler in flight
    saved,              \* what the last save_settings that succeeded wrote from
    slast               \* what the last step of the settings store was

sessionVars == <<user_sessions, sess_order, login_attempts, clients, files, tasks, last>>
settingsVars == <<limited_mode, allowed_chats, settings_file, proc, stask, saved, slast>>
vars == <<sessionVars, settingsVars>>

IdleTask ==
    [kind |-> "none", user |-> 0, pc |-> "idle", h |-> NoClient, site |-> "",
     target |-> 0, todo |-> <<>>, phone |-> "", api_id |-> 0,
     resp |-> "", guarded |-> FALSE, pre |-> "", overlap |-> FALSE, failed |-> FALSE,
     sent |-> "", code |-> FALSE, signin |-> ""]

\* what `last` holds when no handler has just ended
NoEvent == IdleTask

\* the resp of a handler that an exception left: the sender got no answer
Unhandled == "<exception>"

\* The registry, the clients and the directory as one value, so that a run of a
\* task between two await points is a composition of functions on it.
Globals ==
    [us |-> user_sessions, ord |-> sess_order, la |-> login_attempts,
     cl |-> clients, fs |-> files]

\* ABSENT / PENDING / AUTHORIZED of section 4.2, read from the two dicts
StateOf(us, la, u) ==
    IF us[u] # NoClient /\ la[u] # NoAttempt THEN "BOTH"
    ELSE IF us[u] # NoClient THEN "AUTHORIZED"
    ELSE IF la[u] # NoAttempt THEN "PENDING"
    ELSE "ABSENT"

UserState(u) == StateOf(user_sessions, login_attempts, u)

RemoveFromSeq(s, x) == SelectSeq(s, LAMBDA y : y # x)

\* self.user_sessions[user_id] = client
SetSession(m, u, h) ==
    [m EXCEPT !.us[u] = h,
              !.ord = IF m.us[u] # NoClient THEN m.ord ELSE Append(m.ord, u)]

\* del self.user_sessions[user_id]   (the key is present)
DelSession(m, u) == [m EXCEPT !.us[u] = NoClient, !.ord = RemoveFromSeq(m.ord, u)]

\* del self.login_attempts[user_id]   (the key is present)
DelAttempt(m, u) == [m EXCEPT !.la[u] = NoAttempt]

\* for filename in os.listdir(...): if filename.startswith(prefix): os.remove(...)
\* os.remove raises for the files of fail_rm; the exception is printed and dropped.
RemoveFiles(m, prefix, fail_rm) ==
    [m EXCEPT !.fs = {f \in m.fs : ~StartsWith(f, prefix) \/ f \in fail_rm}]

\* ------------------------------------------------------------------ control flow
\* What a run of a task yields: the globals, the task, and where the run stopped:
\* at an await point inside the handler ("step"), at the await of the handler's
\* last response ("respond"), or with an exception leaving the handler ("escaped").
Await(m, tk, pc, h) ==
    [m |-> m,
     tk |-> [tk EXCEPT !.pc = pc, !.h = h,
                       !.site = IF pc \in {"sd_logout", "sd_disc"} THEN tk.site ELSE ""],
     ev |-> "step"]

\* await event.respond(msg) as the handler's last statement;
\* guarded: inside a try whose except clause responds again
Respond(m, tk, msg, guarded) ==
    [m |-> m, tk |-> [tk EXCEPT !.resp = msg, !.guarded = guarded], ev |-> "respond"]

Escape(m, tk) == [m |-> m, tk |-> tk, ev |-> "escaped"]

\* ReturnNone with verify_code_handler's else branch answering as list_chats_handler
\* answers a sender without a session
ReturnNoneLoginFirst(m, tk) ==
    CASE tk.kind = "login" -> Respond(m, tk, "login_error", TRUE)
      [] tk.kind = "verify_code" -> Respond(m, tk, "login_first", FALSE)
      [] tk.kind = "verify_2fa" -> Respond(m, tk, "password_wrong", FALSE)

\* init_user_session / complete_login returned None: the handler's else branch
ReturnNone(m, tk) ==
    CASE tk.kind = "login" -> Respond(m, tk, "login_error", TRUE)
      [] tk.kind = "verify_code" -> Respond(m, tk, "code_invalid", FALSE)
      [] tk.kind = "verify_2fa" -> Respond(m, tk, "password_wrong", FALSE)

\* An exception leaves clean_user_sessions. login_handler calls it inside its try
\* (through init_user_session, before that function's own try); complete_login calls
\* it inside its except clause; logout_handler and clean_all_handler have no try.
Raise(m, tk) ==
    IF tk.kind = "login" THEN Respond(m, tk, "error", FALSE) ELSE Escape(m, tk)

RECURSIVE CleanStart(_, _, _, _), SafeDisconnect(_, _, _, _, _), AfterDisconnect(_, _, _),
          CleanAttempts(_, _, _), CleanAllLoop(_, _, _), AfterClean(_, _, _)

\* clean_all_sessions: the loop over list(self.user_sessions.keys()), then the
\* removal of every remaining session file
CleanAllLoop(m, tk, p) ==
    IF tk.todo # <<>>
    THEN CleanStart(m, [tk EXCEPT !.todo = Tail(tk.todo)], Head(tk.todo), p)
    ELSE Respond(RemoveFiles(m, AnyUserPrefix, p.fail_rm), tk, "all_cleaned", FALSE)

\* int(time.time()) at line 115: the clock is past the second in which the last
\* user client was constructed, so no two session paths are equal
Time(m) == Len(m.cl) + 1

\* clean_user_sessions returned: what its caller does next.
\* login: init_user_session lines 112-119, up to await client.connect()
AfterClean(m, tk, p) ==
    CASE tk.kind = "login" ->
            IF tk.api_id = 0 \/ tk.phone = ""
            THEN ReturnNone(m, tk)
            ELSE LET path == SessionPath(tk.user, Time(m))
                     c == [path |-> path, connected |-> FALSE, logged_out |-> FALSE]
                     m1 == [m EXCEPT !.cl = Append(m.cl, c),
                                     !.fs = m.fs \cup {SessionFile(path)}]
                 IN  Await(m1, tk, "connect", Len(m1.cl))
      [] tk.kind \in {"verify_code", "verify_2fa"} -> ReturnNone(m, tk)
      [] tk.kind = "logout" -> Respond(m, tk, "sessions_closed", FALSE)
      [] tk.kind = "clean_all" -> CleanAllLoop(m, tk, p)

\* clean_user_sessions lines 85-91
CleanFiles(m, tk, p) == AfterClean(RemoveFiles(m, UserPrefix(tk.target), p.fail_rm), tk, p)

\* clean_user_sessions lines 81-83
CleanAttempts(m, tk, p) ==
    IF m.la[tk.target] # NoAttempt
    THEN SafeDisconnect(m, tk, m.la[tk.target].client, "att", p)
    ELSE CleanFiles(m, tk, p)

\* safe_disconnect returned (its result is not read by any caller)
AfterDisconnect(m, tk, p) ==
    CASE tk.site = "sess" ->
            IF m.us[tk.target] = NoClient
            THEN Raise(m, tk)       \* del self.user_sessions[user_id]: KeyError
            ELSE CleanAttempts(DelSession(m, tk.target), tk, p)
      [] tk.site = "att" ->
            IF m.la[tk.target] = NoAttempt
            THEN Raise(m, tk)       \* del self.login_attempts[user_id]: KeyError
            ELSE CleanFiles(DelAttempt(m, tk.target), tk, p)
      [] tk.site = "fail" -> ReturnNone(m, tk)

\* safe_disconnect, up to await client(LogOutRequest())
SafeDisconnect(m, tk, h, site, p) ==
    IF m.cl[h].connected
    THEN Await(m, [tk EXCEPT !.site = site], "sd_logout", h)
    ELSE AfterDisconnect(m, [tk EXCEPT !.site = site, !.h = h], p)

\* clean_user_sessions lines 77-79
CleanStart(m, tk, u, p) ==
    LET tk1 == [tk EXCEPT !.target = u]
    IN  IF m.us[u] # NoClient
        THEN SafeDisconnect(m, tk1, m.us[u], "sess", p)
        ELSE CleanAttempts(m, tk1, p)

\* ------------------------------------------------------------------ the event loop
Outcomes == {"ok", "error"}     \* of an awaited library call: it returns, or it raises

\* What the environment decides in one run of a task: the files os.remove fails
\* on, among those the run can try to remove.
Params(prefix) == [fail_rm : SUBSET {f \in files : StartsWith(f, prefix)}]

\* the files a run of task tk can try to remove
RemovalPrefix(tk) == IF tk.kind = "clean_all" THEN AnyUserPrefix ELSE UserPrefix(tk.target)

NoParams == [fail_rm |-> {}]

InFlight(x) == tasks[x].pc # "idle"

\* Two invocations can touch the same registry entries: the same sender, or one of
\* them is /clean_all.
Conflicts(tk, kind, u) ==
    tk.pc # "idle" /\ (tk.user = u \/ tk.kind = "clean_all" \/ kind = "clean_all")

NewTask(kind, u) ==
    [IdleTask EXCEPT !.kind = kind, !.user = u, !.target = u, !.pc = "start",
                     !.pre = UserState(u),
                     !.overlap = \E x \in TaskIds : Conflicts(tasks[x], kind, u)]

KindIx(k) ==
    CASE k = "login" -> 1 [] k = "verify_code" -> 2 [] k = "verify_2fa" -> 3
      [] k = "logout" -> 4 [] k = "clean_all" -> 5 [] k = "list_chats" -> 6 [] OTHER -> 7

PcIx(pc) ==
    CASE pc = "sd_logout" -> 1 [] pc = "sd_disc" -> 2 [] pc = "connect" -> 3
      [] pc = "is_auth" -> 4 [] pc = "send_code" -> 5 [] pc = "sign_in" -> 6
      [] pc = "get_dialogs" -> 7 [] OTHER -> 8

Bit(b) == IF b THEN 1 ELSE 0

\* The event loop's tasks have no names: the slots are kept in the order of this
\* key (free slots last), so that two states that differ only in which slot holds
\* which invocation are one state.
Rank(tk) ==
    ((((KindIx(tk.kind) * 2 + Bit(tk.user = 1)) * 8 + PcIx(tk.pc)) * 4 + tk.h) * 2
        + Bit(tk.overlap)) * 2 + Bit(tk.failed)

Sorted(ts) == SortSeq(ts, LAMBDA a, b : Rank(a) < Rank(b))

AsSeq(f) == [i \in 1..Cardinality(TaskIds) |-> f[i]]

\* task t is suspended at pc, and the event loop is free to resume it
At(t, pc) == last = NoEvent /\ tasks[t].pc = pc

\* The dispatcher gives a new invocation the first free slot.
FreeSlot(t) ==
    /\ last = NoEvent
    /\ ~InFlight(t)
    /\ \A x \in TaskIds : x < t => InFlight(x)

\* the outcomes of the handler's last await event.respond(...), and of the one
\* in the except clause when the first raised inside a try
RespondOutcomes(r) ==
    IF r.ev # "respond" THEN {"none"}
    ELSE IF r.tk.guarded THEN {"ok", "error_ok", "error_error"}
    ELSE {"ok", "error"}

\* what the sender got from a handler that ended
FinalResp(r, ro) ==
    CASE r.ev = "respond" /\ ro = "ok" -> r.tk.resp
      [] r.ev = "respond" /\ ro = "error_ok" -> "error"
      [] OTHER -> Unhandled

\* what is kept of a handler that ended: who sent which command in which state,
\* the client and arguments it worked with, what the sender got, and how the
\* handler's last event.respond ended ("none": the handler did not get to it)
Ended(tk, resp, ro) ==
    [IdleTask EXCEPT !.pc = "ended", !.kind = tk.kind, !.user = tk.user, !.pre = tk.pre,
                     !.h = tk.h, !.phone = tk.phone, !.api_id = tk.api_id,
                     !.overlap = tk.overlap, !.failed = tk.failed, !.resp = resp,
                     !.sent = ro, !.code = tk.code, !.signin = tk.signin]

SetGlobals(r, ro, p) ==
    /\ user_sessions' = r.m.us
    /\ sess_order' = r.m.ord
    /\ login_attempts' = r.m.la
    /\ clients' = r.m.cl
    /\ files' = r.m.fs
    /\ last' = IF r.ev = "step" THEN NoEvent
               ELSE Ended(r.tk, FinalResp(r, ro), ro)
    /\ UNCHANGED settingsVars

\* A new invocation ran to its first await point, or to its end.
Started(t, r, p) ==
    \E ro \in RespondOutcomes(r) :
        /\ SetGlobals(r, ro, p)
        /\ tasks' = IF r.ev # "step" THEN tasks
                    ELSE Sorted(AsSeq([x \in TaskIds |->
                            IF x = t THEN r.tk
                            ELSE IF Conflicts(tasks[x], r.tk.kind, r.tk.user)
                                 THEN [tasks[x] EXCEPT !.overlap = TRUE]
                                 ELSE tasks[x]]))

\* A suspended invocation ran to its next await point, or to its end.
Resumed(t, r, p) ==
    \E ro \in RespondOutcomes(r) :
        /\ SetGlobals(r, ro, p)
        /\ tasks' = Sorted(AsSeq([tasks EXCEPT ![t] = IF r.ev = "step" THEN r.tk
                                                      ELSE IdleTask]))

\* A request on a client returns only if the client is connected; a request that
\* needs the session's authorization key only if the key was not logged out.
Connected(h) == clients[h].connected

Usable(h) == clients[h].connected /\ ~clients[h].logged_out

\* user clients constructed, or about to be: a /login that is still cleaning
ClientsClaimed ==
    Len(clients) + Cardinality({x \in TaskIds :
        /\ tasks[x].kind = "login"
        /\ tasks[x].pc \in {"sd_logout", "sd_disc"}
        /\ tasks[x].site \in {"sess", "att"}})

\* LoginStart without the test of line 175
LoginStartUnguarded(t, u, phone, api_id, p) ==
    /\ FreeSlot(t)
    /\ ClientsClaimed < MaxClients
    /\ LET tk == [NewTask("login", u) EXCEPT !.phone = phone, !.api_id = api_id]
       IN  Started(t, CleanStart(Globals, tk, u, p), p)

\* login_handler, to its first await
LoginStart(t, u, phone, api_id, p) ==
    /\ FreeSlot(t)
    /\ user_sessions[u] = NoClient => ClientsClaimed < MaxClients
    /\ LET tk == [NewTask("login", u) EXCEPT !.phone = phone, !.api_id = api_id]
       IN  Started(t, IF user_sessions[u] # NoClient
                      THEN Respond(Globals, tk, "logout_first", FALSE)
                      ELSE CleanStart(Globals, tk, u, p), p)

\* safe_disconnect: await client(LogOutRequest()) ends
SdLogout(t, out, p) ==
    /\ At(t, "sd_logout")
    /\ out = "ok" => Connected(tasks[t].h)
    /\ LET tk == tasks[t]
           m == Globals
       IN  Resumed(t, IF out = "ok"
                      THEN Await([m EXCEPT !.cl[tk.h].logged_out = TRUE], tk, "sd_disc", tk.h)
                      ELSE AfterDisconnect(m, tk, p), p)

\* safe_disconnect: await client.disconnect() ends
SdDisconnect(t, out, p) ==
    /\ At(t, "sd_disc")
    /\ LET tk == tasks[t]
           m == Globals
       IN  Resumed(t, AfterDisconnect(IF out = "ok"
                                      THEN [m EXCEPT !.cl[tk.h].connected = FALSE]
                                      ELSE m, tk, p), p)

\* A library call of the login flow raised: init_user_session lines 136-139
InitFailed(m, tk, p) == SafeDisconnect(m, [tk EXCEPT !.failed = TRUE], tk.h, "fail", p)

\* init_user_session: await client.connect() ends
Connect(t, out) ==
    /\ At(t, "connect")
    /\ LET tk == tasks[t]
           m == Globals
       IN  Resumed(t, IF out = "ok"
                      THEN Await([m EXCEPT !.cl[tk.h].connected = TRUE], tk, "is_auth", tk.h)
                      ELSE InitFailed(m, tk, NoParams), NoParams)

\* init_user_session: await client.is_user_authorized() ends.
\* The client was constructed on a session path no earlier client had (Time), so
\* its session holds no authorization: the call returns False or raises, and
\* lines 133-134 are not reached.
IsUserAuthorized(t, out) ==
    /\ At(t, "is_auth")
    /\ out = "no" => Connected(tasks[t].h)
    /\ out # "yes"
    /\ LET tk == tasks[t]
           m == Globals
       IN  Resumed(t, CASE out = "no" -> Await(m, tk, "send_code", tk.h)
                        [] out = "yes" ->
                             Respond(SetSession(m, tk.user, tk.h), tk, "auto_login", TRUE)
                        [] out = "error" -> InitFailed(m, tk, NoParams), NoParams)

\* sent_code.phone_code_hash: the server issues a fresh hash for each code request,
\* named here by the client that asked for it
CodeHash(h) == <<"hash", h>>

\* init_user_session: await client.send_code_request(phone) ends
SendCodeRequest(t, out) ==
    /\ At(t, "send_code")
    /\ out = "ok" => Connected(tasks[t].h)
    /\ LET tk == tasks[t]
           m == Globals
           attempt == [client |-> tk.h, phone |-> tk.phone,
                       phone_code_hash |-> CodeHash(tk.h)]
       IN  Resumed(t, IF out = "ok"
                      THEN Respond([m EXCEPT !.la[tk.user] = attempt],
                                   [tk EXCEPT !.code = TRUE], "code_sent", TRUE)
                      ELSE InitFailed(m, tk, NoParams), NoParams)

\* verify_code_handler / verify_2fa_handler, to the first await of complete_login
VerifyStart(t, u, kind) ==
    /\ FreeSlot(t)
    /\ LET tk == NewTask(kind, u)
           m == Globals
       IN  Started(t, IF login_attempts[u] = NoAttempt
                      THEN ReturnNone(m, tk)
                      ELSE Await(m, tk, "sign_in", login_attempts[u].client), NoParams)

\* complete_login lines 159-161
Promote(m, tk, p) ==
    LET m1 == SetSession(m, tk.user, tk.h)
    IN  IF m.la[tk.user] = NoAttempt
        THEN \* del self.login_attempts[user_id]: KeyError, caught at line 165
             CleanStart(m1, tk, tk.user, p)
        ELSE Respond(DelAttempt(m1, tk.user), tk,
                     IF tk.kind = "verify_code" THEN "login_completed"
                     ELSE "access_completed", FALSE)

\* complete_login: await client.sign_in(...) ends
SignIn(t, out, p) ==
    /\ At(t, "sign_in")
    /\ out = "need_2fa" => tasks[t].kind = "verify_code"
    /\ out # "error" => Usable(tasks[t].h)
    /\ LET tk == [tasks[t] EXCEPT !.signin = IF out = "error" THEN "" ELSE out]
           m == Globals
       IN  Resumed(t, CASE out = "ok" -> Promote(m, tk, p)
                        [] out = "need_2fa" ->
                             Respond(m, tk, "need_2fa", FALSE)
                        [] out = "error" ->
                             CleanStart(m, [tk EXCEPT !.failed = TRUE], tk.user, p), p)

\* logout_handler, to its first await
LogoutStart(t, u, p) ==
    /\ FreeSlot(t)
    /\ Started(t, CleanStart(Globals, NewTask("logout", u), u, p), p)

\* CleanAllStart without the test of line 230
CleanAllStartUnguarded(t, u, p) ==
    /\ FreeSlot(t)
    /\ Started(t, CleanAllLoop(Globals, [NewTask("clean_all", u) EXCEPT !.todo = sess_order],
                               p), p)

\* clean_all_handler, to its first await
CleanAllStart(t, u, p) ==
    /\ FreeSlot(t)
    /\ LET tk == NewTask("clean_all", u)
       IN  Started(t, IF user_sessions[u] = NoClient
                      THEN Respond(Globals, tk, "admin_only", FALSE)
                      ELSE CleanAllLoop(Globals, [tk EXCEPT !.todo = sess_order], p), p)

\* list_chats_handler, to its first await
ListChatsStart(t, u) ==
    /\ FreeSlot(t)
    /\ LET tk == NewTask("list_chats", u)
       IN  Started(t, IF user_sessions[u] = NoClient
                      THEN Respond(Globals, tk, "login_first", FALSE)
                      ELSE Await(Globals, tk, "get_dialogs", user_sessions[u]), NoParams)

\* list_chats_handler: await ...get_dialogs(limit=20) ends
GetDialogs(t, out) ==
    /\ At(t, "get_dialogs")
    /\ out = "ok" => Usable(tasks[t].h)
    /\ Resumed(t, IF out = "ok" THEN Respond(Globals, tasks[t], "chat_list", TRUE)
                  ELSE Respond(Globals, tasks[t], "error", FALSE), NoParams)

\* The event loop takes note of a handler that ended (Telethon logs the exception
\* of one that raised) before it runs anything else.
Reap ==
    /\ last # NoEvent
    /\ last' = NoEvent
    /\ UNCHANGED <<user_sessions, sess_order, login_attempts, clients, files, tasks>>
    /\ UNCHANGED settingsVars

\* ------------------------------------------------------------------ settings store
\* A chat identifier of allowed_chats: a str, or an int
StrId(chars) == [t |-> "str", n |-> 0, s |-> chars]
IntId(n) == [t |-> "int", n |-> n, s |-> <<>>]

\* A JSON value of the allowed_chats array: a string, or a number
JsonString(chars) == [t |-> "string", n |-> 0, s |-> chars]
JsonNumber(n) == [t |-> "number", n |-> n, s |-> <<>>]

\* json.dump of one element of list(self.allowed_chats)
DumpId(id) == IF id.t = "int" THEN JsonNumber(id.n) ELSE JsonString(id.s)

\* LoadId reading every element as text
LoadIdAsText(j) == StrId(IF j.t = "number" THEN Str(j.n) ELSE j.s)

\* json.load of one element of the allowed_chats array
LoadId(j) == IF j.t = "number" THEN IntId(j.n) ELSE StrId(j.s)

\* json.dump / json.load of limited_mode: True, False, None <-> true, false, null
DumpMode(v) == CASE v = "True" -> "true" [] v = "False" -> "false" [] v = "None" -> "null"
LoadMode(j) == CASE j = "true" -> "True" [] j = "false" -> "False" [] j = "null" -> "None"

\* not self.limited_mode
NotMode(v) == IF v = "True" THEN "False" ELSE "True"

\* The content of tucl_settings.json.  kind: "absent" (no file), "garbage" (not
\* JSON: an empty or half-written file), "array" (valid JSON, top level a list),
\* "object".  Of an object, lm is the limited_mode member ("missing" or a JSON
\* value) and ac the allowed_chats member: ac.kind is "missing", "list" (items),
\* "null", "number" or "string" (items: its characters).
NoMember == [kind |-> "missing", items |-> <<>>]
FileOf(kind, lm, ac) == [kind |-> kind, lm |-> lm, ac |-> ac]
AbsentFile == FileOf("absent", "missing", NoMember)
GarbageFile == FileOf("garbage", "missing", NoMember)
ArrayFile == FileOf("array", "missing", NoMember)
ObjectFile(lm, ackind, items) == FileOf("object", lm, [kind |-> ackind, items |-> items])

Range(seq) == {seq[i] : i \in DOMAIN seq}

\* list(s) of a set: the elements once each, in an order the program does not fix
ListsOf(S) == {q \in [1..Cardinality(S) -> S] : Range(q) = S}

\* load_settings on `file`, called with limited_mode = lm0 and allowed_chats = ac0:
\* the values it leaves, and whether an exception leaves it
LoadSettings(file, lm0, ac0) ==
    CASE file.kind \in {"absent", "garbage"} ->
            \* FileNotFoundError, json.JSONDecodeError: lines 45-49
            [lm |-> "False", ac |-> {}, raised |-> FALSE]
      [] file.kind = "array" ->
            \* data.get: AttributeError, which line 45 does not catch
            [lm |-> lm0, ac |-> ac0, raised |-> TRUE]
      [] file.kind = "object" ->
            LET lm == IF file.lm = "missing" THEN "False" ELSE LoadMode(file.lm)
            IN  CASE file.ac.kind = "missing" -> [lm |-> lm, ac |-> {}, raised |-> FALSE]
                  [] file.ac.kind = "list" ->
                        [lm |-> lm, ac |-> {LoadId(j) : j \in Range(file.ac.items)},
                         raised |-> FALSE]
                  [] file.ac.kind = "string" ->
                        \* set("...") is the set of the string's characters
                        [lm |-> lm, ac |-> {StrId(<<c>>) : c \in Range(file.ac.items)},
                         raised |-> FALSE]
                  [] file.ac.kind \in {"null", "number"} ->
                        \* set(None), set(5): TypeError, after line 43 assigned
                        [lm |-> lm, ac |-> ac0, raised |-> TRUE]

\* What save_settings leaves in the file: json.dump of the two values (list(...)
\* in the order `order`), or, when open() or the write raises, the old file or a
\* half-written one.  The exception is printed and dropped (lines 59-60).
SaveSettings(file, lm, order, out) ==
    CASE out = "ok" -> ObjectFile(DumpMode(lm), "list", [i \in DOMAIN order |-> DumpId(order[i])])
      [] out = "open_fails" -> file
      [] out = "write_fails" -> GarbageFile

SaveOutcomes == {"ok", "open_fails", "write_fails"}

\* chat_identifier = event.pattern_match.group(1).strip().lower()
Lower(c) == CASE c = "A" -> "a" [] c = "B" -> "b" [] c = "X" -> "x" [] OTHER -> c

RECURSIVE Strip(_)
Strip(chars) ==
    IF chars # <<>> /\ Head(chars) = " " THEN Strip(Tail(chars))
    ELSE IF chars # <<>> /\ chars[Len(chars)] = " " THEN Strip(SubSeq(chars, 1, Len(chars) - 1))
    ELSE chars

Normalise(arg) == LET st == Strip(arg) IN [i \in DOMAIN st |-> Lower(st[i])]

DigitValue(c) == CHOOSE d \in 0..9 : Digits[d + 1] = c

RECURSIVE ParseInt(_)
\* int(text) of a non-empty text of decimal digits
ParseInt(chars) ==
    IF Len(chars) = 1 THEN DigitValue(chars[1])
    ELSE 10 * ParseInt(SubSeq(chars, 1, Len(chars) - 1)) + DigitValue(chars[Len(chars)])

\* whether int(text) returns (else ValueError)
IsInt(chars) == chars # <<>> /\ \A i \in DOMAIN chars : chars[i] \in Range(Digits)

\* what allow_chat_handler adds for group(1) = arg; "none": the format is invalid
ChatIdOf(arg) ==
    LET text == Normalise(arg)
    IN  IF StartsWith(text, <<"@">>) THEN StrId(text)
        ELSE IF IsInt(text) THEN IntId(ParseInt(text))
        ELSE [t |-> "none", n |-> 0, s |-> text]

\* group(1) of the /allow_chat pattern
ChatArgs ==
    {<<"@", "A", "b">>, <<"@", "a", "b">>, <<"7">>, <<"0", "7">>, <<" ", "7">>, <<"x", "7">>}

\* the files the process can find when it starts
InitialFiles ==
    {AbsentFile, GarbageFile, ArrayFile,
     ObjectFile("missing", "missing", <<>>),
     ObjectFile("true", "list", <<JsonNumber(7), JsonString(<<"@", "a", "b">>)>>),
     ObjectFile("null", "list", <<>>),
     ObjectFile("true", "number", <<>>),
     ObjectFile("false", "null", <<>>),
     ObjectFile("true", "string", <<"@">>)}

\* event.chat_id of an incoming command
Chats == {IntId(7), IntId(9)}

\* limited: the command arrived while limited_mode was True, from a chat that was
\* not in allowed_chats
NoSettingsTask == [pc |-> "idle", id |-> StrId(<<>>), limited |-> FALSE]
NotSaved == [valid |-> FALSE, lm |-> "False", ac |-> {}]
\* lm0: limited_mode before a toggle
NoSettingsEvent ==
    [kind |-> "none", id |-> StrId(<<>>), responded |-> FALSE, save |-> "none",
     lm0 |-> "-", err |-> "-", limited |-> FALSE]

SessionsIdle ==
    UNCHANGED sessionVars

\* TUCLBot.__init__ lines 31-35: the defaults, then load_settings; an exception
\* leaves __init__ and ends the process
Boot ==
    /\ proc = "init"
    /\ LET r == LoadSettings(settings_file, "False", {})
       IN  /\ limited_mode' = r.lm
           /\ allowed_chats' = r.ac
           /\ proc' = IF r.raised THEN "crashed" ELSE "running"
    /\ slast' = [NoSettingsEvent EXCEPT !.kind = "boot"]
    /\ UNCHANGED <<settings_file, stask, saved>>
    /\ SessionsIdle

\* The process is started again (by hand or by a supervisor): memory is lost, the
\* file stays.
Restart ==
    /\ proc \in {"running", "crashed"}
    /\ proc' = "init"
    /\ limited_mode' = "False"
    /\ allowed_chats' = {}
    /\ stask' = NoSettingsTask
    /\ slast' = [NoSettingsEvent EXCEPT !.kind = "restart"]
    /\ UNCHANGED <<settings_file, saved>>
    /\ SessionsIdle

\* what the library can raise out of run_until_disconnected: FloodWaitError,
\* another RPCError / ConnectionError, any other exception
ReceiveErrors == {"rate_limit", "transport", "unclassified"}

\* TUCLBot.start line 321: await self.client.run_until_disconnected() raises.
\* start has no try and no loop, and neither has the caller at line 325: the
\* exception leaves asyncio.run and the process ends, handlers in flight with it.
ReceiveError(err) ==
    /\ proc = "running"
    /\ proc' = "crashed"
    /\ stask' = NoSettingsTask
    /\ slast' = [NoSettingsEvent EXCEPT !.kind = "receive_error", !.err = err]
    /\ UNCHANGED <<limited_mode, allowed_chats, settings_file, saved>>
    /\ SessionsIdle

\* self.save_settings() with the values lm and ac in memory
DoSave(lm, ac, order, out) ==
    /\ settings_file' = SaveSettings(settings_file, lm, order, out)
    /\ saved' = CASE out = "ok" -> [valid |-> TRUE, lm |-> lm, ac |-> ac]
                  [] out = "open_fails" -> saved
                  [] out = "write_fails" -> NotSaved

\* toggle_limited_mode: lines 270-271, then await event.edit(...), which ends the
\* handler whether it returns or raises
ToggleLimitedMode(out) ==
    /\ proc = "running"
    /\ limited_mode' = NotMode(limited_mode)
    /\ \E order \in ListsOf(allowed_chats) : DoSave(NotMode(limited_mode), allowed_chats, order, out)
    /\ slast' = [NoSettingsEvent EXCEPT
                    !.kind = "toggle", !.save = out, !.lm0 = limited_mode]
    /\ UNCHANGED <<allowed_chats, proc, stask>>
    /\ SessionsIdle

\* allow_chat_handler, to await event.respond(...): lines 281-292
AllowChatStart(arg, chat) ==
    /\ proc = "running"
    /\ stask.pc = "idle"
    /\ LET id == ChatIdOf(arg)
       IN  /\ allowed_chats' = IF id.t = "none" THEN allowed_chats ELSE allowed_chats \cup {id}
           /\ stask' = [pc |-> "respond", id |-> id,
                        limited |-> limited_mode = "True" /\ chat \notin allowed_chats]
    /\ slast' = [NoSettingsEvent EXCEPT !.kind = "allow_chat_start"]
    /\ UNCHANGED <<limited_mode, settings_file, proc, saved>>
    /\ SessionsIdle

\* allow_chat_handler: await event.respond(...) ends; if it returned, line 294
AllowChatRespond(rout, out) ==
    /\ proc = "running"
    /\ stask.pc = "respond"
    /\ IF rout = "ok"
       THEN /\ \E order \in ListsOf(allowed_chats) :
                    DoSave(limited_mode, allowed_chats, order, out)
            /\ slast' = [NoSettingsEvent EXCEPT !.kind = "allow_chat", !.id = stask.id,
                                                !.responded = TRUE, !.save = out,
                                                !.limited = stask.limited]
       ELSE /\ out = "ok"
            /\ UNCHANGED <<settings_file, saved>>
            /\ slast' = [NoSettingsEvent EXCEPT !.kind = "allow_chat", !.id = stask.id,
                                                !.limited = stask.limited]
    /\ stask' = NoSettingsTask
    /\ UNCHANGED <<limited_mode, allowed_chats, proc>>
    /\ SessionsIdle

SettingsInit ==
    /\ user_sessions = [u \in Users |-> NoClient]
    /\ sess_order = <<>>
    /\ login_attempts = [u \in Users |-> NoAttempt]
    /\ clients = <<>>
    /\ files = {BotSessionFile}
    /\ tasks = [t \in TaskIds |-> IdleTask]
    /\ last = NoEvent
    /\ limited_mode = "False"
    /\ allowed_chats = {}
    /\ settings_file \in InitialFiles
    /\ proc = "init"
    /\ stask = NoSettingsTask
    /\ saved = NotSaved
    /\ slast = NoSettingsEvent

SettingsNext ==
    \/ Boot
    \/ Restart
    \/ \E out \in SaveOutcomes : ToggleLimitedMode(out)
    \/ \E arg \in ChatArgs, chat \in Chats : AllowChatStart(arg, chat)
    \/ \E rout \in Outcomes, out \in SaveOutcomes : AllowChatRespond(rout, out)
    \/ \E err \in ReceiveErrors : ReceiveError(err)

SettingsSpec == SettingsInit /\ [][SettingsNext]_vars

\* ------------------------------------------------------------------ properties
RegistryVars == <<user_sessions, sess_order, login_attempts, clients, files>>

\* the session files of the clients constructed for user u
OwnFiles(u) == {f \in files : StartsWith(f, UserPrefix(u) \o <<"_">>)}

\* a handler of `kinds` ended in this state
EndedOf(kinds) == last.pc = "ended" /\ last.kind \in kinds

\* C1: in every reachable state no user is at once a key of user_sessions and a
\* key of login_attempts, whatever the interleaving of the handlers.
CE_C1 ==
    \A u \in Users : ~(user_sessions[u] # NoClient /\ login_attempts[u] # NoAttempt)

\* C2: when a /login of a user without a session, for which the library connected
\* and sent the code, ends and its answer was delivered, the user has a pending
\* attempt with the new client, the phone and the code hash, has no session, and
\* the answer was "code sent".
CE_C2 ==
    (EndedOf({"login"}) /\ last.pre \in {"ABSENT", "PENDING"} /\ last.code
        /\ last.sent = "ok")
    => /\ login_attempts[last.user] =
            [client |-> last.h, phone |-> last.phone, phone_code_hash |-> CodeHash(last.h)]
       /\ user_sessions[last.user] = NoClient
       /\ last.resp = "code_sent"

\* C3: a /login of a user who has a session answers "logout first" (nothing else
\* is sent) and leaves the two dicts, the clients and the directory as they were;
\* it ends in its first run, so no client is constructed or connected for it.
T_C3 ==
    [][(last'.pc = "ended" /\ last'.kind = "login" /\ last'.pre \in {"AUTHORIZED", "BOTH"})
        => /\ last'.sent = "ok" => last'.resp = "logout_first"
           /\ last'.sent # "ok" => last'.resp = Unhandled
           /\ last'.h = NoClient
           /\ UNCHANGED RegistryVars
           /\ UNCHANGED tasks]_vars

W_C3 ==
    /\ EndedOf({"login"})
    /\ last.pre = "AUTHORIZED"
    /\ last.resp = "logout_first"
    /\ user_sessions[last.user] # NoClient

\* C4: a /verify_code of a user without a pending attempt answers
\* "do /login first" and changes no state.
CE_C4 ==
    (EndedOf({"verify_code"}) /\ last.pre \in {"ABSENT", "AUTHORIZED"} /\ last.sent = "ok")
    => /\ last.resp = "login_first"
       /\ UserState(last.user) = last.pre
       /\ last.h = NoClient

\* C4, with the answer verify_code_handler gives: a /verify_code of a user without
\* a pending attempt answers with the message of a failed sign-in ("invalid code or error"), leaves the two dicts,
\* the clients and the directory as they were, and calls sign_in on no client: it
\* ends in its first run with no client in hand.
T_C4 ==
    [][(last'.pc = "ended" /\ last'.kind = "verify_code"
            /\ last'.pre \in {"ABSENT", "AUTHORIZED"})
        => /\ last'.sent = "ok" => last'.resp = "code_invalid"
           /\ last'.sent # "ok" => last'.resp = Unhandled
           /\ last'.h = NoClient
           /\ ~last'.failed
           /\ UNCHANGED RegistryVars
           /\ UNCHANGED tasks]_vars

W_C4 ==
    /\ EndedOf({"verify_code"})
    /\ last.pre = "ABSENT"
    /\ last.resp = "code_invalid"
    /\ last.h = NoClient
    /\ login_attempts[last.user] = NoAttempt

\* C5: when a library call of the login flow raised (not the second-factor
\* signal) and the handler ended, with no other command on the same user in
\* between, the user is in neither dict and the client of the attempt is
\* disconnected.
CE_C5 ==
    (EndedOf({"login", "verify_code", "verify_2fa"}) /\ last.failed /\ ~last.overlap)
    => /\ UserState(last.user) = "ABSENT"
       /\ ~clients[last.h].connected

\* C6: when a /logout of a user who had a session (and no other command on the
\* same user in between) ended, the user is in neither dict, the client that was
\* registered is logged out and disconnected, and no session file of the user is
\* left.
CE_C6 ==
    (EndedOf({"logout"}) /\ last.pre = "AUTHORIZED" /\ ~last.overlap)
    => /\ UserState(last.user) = "ABSENT"
       /\ clients[last.h].logged_out
       /\ ~clients[last.h].connected
       /\ OwnFiles(last.user) = {}

\* C7: every handler that ends got to its answer to the sender: no exception
\* raised inside it left it.
CE_C7 ==
    last.pc = "ended" => last.sent # "none"

\* the file is missing or malformed: absent, not JSON, JSON that is no object, or
\* an object whose allowed_chats member is not a list
Malformed(file) ==
    \/ file.kind \in {"absent", "garbage", "array"}
    \/ file.kind = "object" /\ file.ac.kind \in {"null", "number", "string"}

\* the allowed_chats array of the file has the JSON value j
InFile(j) ==
    /\ settings_file.kind = "object"
    /\ settings_file.ac.kind = "list"
    /\ j \in Range(settings_file.ac.items)

\* C8: load_settings on a missing or malformed file does not raise and leaves
\* limited_mode = False and allowed_chats = set().
CE_C8 ==
    (slast.kind = "boot" /\ Malformed(settings_file))
    => /\ proc = "running"
       /\ limited_mode = "False"
       /\ allowed_chats = {}

\* C9: load_settings on the file a successful save_settings wrote yields the
\* limited_mode and the allowed_chats the save was called with: the same elements,
\* ints as ints and strs as strs.
T_C9 ==
    (slast.kind = "boot" /\ saved.valid)
    => /\ proc = "running"
       /\ limited_mode = saved.lm
       /\ allowed_chats = saved.ac

W_C9 ==
    /\ slast.kind = "boot"
    /\ saved.valid
    /\ limited_mode = "True"
    /\ {IntId(7), StrId(<<"@", "a", "b">>)} \subseteq allowed_chats
    /\ proc = "running"

\* C10: when the /allow_chat handler has ended for an argument @name or a decimal
\* integer (and no write of the file failed in it), the identifier is in
\* allowed_chats and in the allowed_chats array of the file, whether the response
\* was delivered or not.
CE_C10 ==
    (slast.kind = "allow_chat" /\ slast.id.t # "none" /\ slast.save \in {"ok", "none"})
    => /\ slast.id \in allowed_chats
       /\ InFile(DumpId(slast.id))

\* C11: an /allow_chat whose argument neither starts with '@' nor parses as an
\* integer changes neither limited_mode, nor allowed_chats, nor the content of the
\* settings file, in either of its two runs.
CE_C11 ==
    [][((slast'.kind = "allow_chat_start" /\ stask'.id.t = "none")
            \/ (slast'.kind = "allow_chat" /\ slast'.id.t = "none"))
        => UNCHANGED <<limited_mode, allowed_chats, settings_file>>]_vars

\* C12: of two toggle_limited_mode callbacks in a row, each calls save_settings
\* once and leaves allowed_chats alone, a save that succeeds writes the value the
\* toggle assigned, the first toggle assigns the negation of the original value
\* and the second assigns the original value again; for every value limited_mode
\* can have.
CE_C12 ==
    [][slast'.kind = "toggle"
        => /\ allowed_chats' = allowed_chats
           /\ slast'.save \in SaveOutcomes
           /\ slast'.save = "ok"
                => settings_file'.kind = "object"
                    /\ settings_file'.lm = DumpMode(limited_mode')
           /\ slast.kind = "toggle"
                => /\ limited_mode # slast.lm0
                   /\ limited_mode' = slast.lm0]_vars

\* the denial of a command that needs a session
Denial(kind) == IF kind = "list_chats" THEN "login_first" ELSE "admin_only"

\* C13: a /list_chats or /clean_all of a user without a session answers with its
\* fixed denial (nothing else is sent), ends in its first run with no client in
\* hand (get_dialogs is called on none), and leaves the two dicts, the clients and
\* the directory as they were.
T_C13 ==
    [][(last'.pc = "ended" /\ last'.kind \in {"list_chats", "clean_all"}
            /\ last'.pre \in {"ABSENT", "PENDING"})
        => /\ last'.sent = "ok" => last'.resp = Denial(last'.kind)
           /\ last'.sent # "ok" => last'.resp = Unhandled
           /\ last'.h = NoClient
           /\ UNCHANGED RegistryVars
           /\ UNCHANGED tasks]_vars

W_C13 ==
    /\ EndedOf({"clean_all"})
    /\ last.pre = "PENDING"
    /\ last.resp = "admin_only"
    /\ \E u \in Users : user_sessions[u] # NoClient /\ OwnFiles(u) # {}

\* C14: after the library raised a rate-limit error, a transport error or an
\* unclassified exception in the receive loop, the process has not terminated (it
\* waits and reconnects).
CE_C14 ==
    slast.kind = "receive_error" => proc = "running"

\* C15: a command that arrived while limited_mode was True, from a chat that was
\* not in allowed_chats, gets no response and writes nothing.
CE_C15 ==
    (slast.kind = "allow_chat" /\ slast.limited)
    => /\ ~slast.responded
       /\ slast.save = "none"

\* C16: a /verify_code to which the library answered that a password is needed
\* leaves the two dicts, the clients and the directory as they were (the attempt
\* is retained, the user gets no session, the client stays connected), and when a
\* /verify_2fa whose password the library accepted has ended, the client of the
\* attempt is the user's session and the attempt is gone.
CE_C16 ==
    [][/\ (last'.pc = "ended" /\ last'.signin = "need_2fa") => UNCHANGED RegistryVars
       /\ (last'.pc = "ended" /\ last'.kind = "verify_2fa" /\ last'.signin = "ok")
            => /\ user_sessions'[last'.user] = last'.h
               /\ login_attempts'[last'.user] = NoAttempt]_vars

\* the clients constructed for user u
ClientsOf(u) ==
    {h \in 1..Len(clients) : StartsWith(clients[h].path, UserPrefix(u) \o <<"_">>)}

\* C17: when a well-formed /login of a user who had a pending attempt (and no other
\* command on the same user in between) has ended, every earlier client of the
\* user is disconnected and its session file removed, and the user has either
\* exactly the new attempt (new client, phone, code hash), if the code was sent,
\* or no entry at all.
CE_C17 ==
    (EndedOf({"login"}) /\ last.pre = "PENDING" /\ last.api_id # 0 /\ ~last.overlap)
    => /\ \A h \in ClientsOf(last.user) \ {last.h} :
            /\ ~clients[h].connected
            /\ SessionFile(clients[h].path) \notin files
       /\ user_sessions[last.user] = NoClient
       /\ IF last.code
          THEN login_attempts[last.user] =
                    [client |-> last.h, phone |-> last.phone,
                     phone_code_hash |-> CodeHash(last.h)]
          ELSE login_attempts[last.user] = NoAttempt

\* the session files, among fs, of the clients constructed for user u
OwnFilesIn(fs, u) == {f \in fs : StartsWith(f, UserPrefix(u) \o <<"_">>)}

\* C18: the run in which a /login, /verify_code, /verify_2fa or /logout of user A
\* ends changes, for no other user B, B's entries in the two dicts, B's clients
\* or B's session files.
CE_C18 ==
    [][(last'.pc = "ended" /\ last'.kind \in {"login", "verify_code", "verify_2fa", "logout"})
        => \A b \in Users \ {last'.user} :
            /\ user_sessions'[b] = user_sessions[b]
            /\ login_attempts'[b] = login_attempts[b]
            /\ \A h \in ClientsOf(b) : clients'[h] = clients[h]
            /\ OwnFilesIn(files', b) = OwnFilesIn(files, b)]_vars

\* C19: when a /clean_all of an AUTHORIZED sender has ended with no other handler
\* in flight, both dicts are empty, the client of every attempt that was pending
\* is disconnected, and no tucl_user_session file is left.
CE_C19 ==
    (EndedOf({"clean_all"}) /\ last.pre = "AUTHORIZED" /\ ~last.overlap)
        => /\ \A u \in Users : user_sessions[u] = NoClient /\ login_attempts[u] = NoAttempt
           /\ \A h \in 1..Len(clients) : ~clients[h].connected
           /\ \A f \in files : ~StartsWith(f, AnyUserPrefix)

\* C20: whenever no handler is in flight, every client that is still connected is
\* the value of a user_sessions entry or the client of a login_attempts entry.
CE_C20 ==
    (\A t \in TaskIds : tasks[t].pc = "idle")
        => \A h \in 1..Len(clients) :
            clients[h].connected
                => \E u \in Users : user_sessions[u] = h \/ login_attempts[u].client = h

Init ==
    /\ user_sessions = [u \in Users |-> NoClient]
    /\ sess_order = <<>>
    /\ login_attempts = [u \in Users |-> NoAttempt]
    /\ clients = <<>>
    /\ files = {BotSessionFile}
    /\ tasks = [t \in TaskIds |-> IdleTask]
    /\ last = NoEvent
    /\ limited_mode = "False"
    /\ allowed_chats = {}
    /\ settings_file = AbsentFile
    /\ proc = "running"
    /\ stask = NoSettingsTask
    /\ saved = NotSaved
    /\ slast = NoSettingsEvent

Next ==
    \/ \E t \in TaskIds, u \in Users, phone \in Phones, api_id \in ApiIds :
        \E p \in Params(UserPrefix(u)) :
            LoginStart(t, u, phone, api_id, p)
    \/ \E t \in TaskIds, out \in Outcomes : \E p \in Params(RemovalPrefix(tasks[t])) :
            SdLogout(t, out, p)
    \/ \E t \in TaskIds, out \in Outcomes : \E p \in Params(RemovalPrefix(tasks[t])) :
            SdDisconnect(t, out, p)
    \/ \E t \in TaskIds, out \in Outcomes : Connect(t, out)
    \/ \E t \in TaskIds, out \in {"yes", "no", "error"} : IsUserAuthorized(t, out)
    \/ \E t \in TaskIds, out \in Outcomes : SendCodeRequest(t, out)
    \/ \E t \in TaskIds, u \in Users, kind \in {"verify_code", "verify_2fa"} :
            VerifyStart(t, u, kind)
    \/ \E t \in TaskIds, out \in {"ok", "need_2fa", "error"} :
        \E p \in Params(RemovalPrefix(tasks[t])) : SignIn(t, out, p)
    \/ \E t \in TaskIds, u \in Users : \E p \in Params(UserPrefix(u)) : LogoutStart(t, u, p)
    \/ \E t \in TaskIds, u \in Users, p \in Params(AnyUserPrefix) : CleanAllStart(t, u, p)
    \/ \E t \in TaskIds, u \in Users : ListChatsStart(t, u)
    \/ \E t \in TaskIds, out \in Outcomes : GetDialogs(t, out)
    \/ Reap

Spec == Init /\ [][Next]_vars

====
